---- MODULE Spec2Model ----
\* files-to-prompt.cpp: a model of src/main.cpp (and of src/unnamed/part_000
\* where the two builds differ: option parsing and read_gitignore).
\*
\* A std::string is a sequence of one-byte tokens; "NUL" stands for the byte 0.
EXTENDS Integers, Sequences, FiniteSets, TLC

VARIABLES
    build,            \* which translation unit was built: "main" or "part_000"
    paths,            \* main: std::vector<std::string> paths
    extensions,       \* main: extensions
    ignore_patterns,  \* main: ignore_patterns
    include_hidden,   \* main: include_hidden
    ignore_gitignore, \* main: ignore_gitignore
    claude_xml,       \* main: claude_xml
    output_file,      \* main: output_file ("" or a name)
    fs,               \* the file system the run sees
    pc,               \* position in main
    i,                \* index of the root the for loop of main is at
    queue,            \* entries recursive_directory_iterator has not produced yet
    gitignore_rules,  \* main: gitignore_rules
    global_index,     \* print_path: static int global_index
    writer,           \* main: FILE* writer ("stdout", "file", "null", "unset")
    out,              \* what reached the primary output, one record per write
    err,              \* what reached stderr
    status,           \* "running", "exit0", "exit1", "crash"
    visits,           \* history: one record per candidate handled
    loads,            \* history: one record per read_gitignore call of main
    nullWrites,       \* history: number of fprintf calls made on a null FILE*
    call,             \* harness: the arguments of a pure function
    ret               \* harness: its result

optVars == <<build, paths, extensions, ignore_patterns, include_hidden,
             ignore_gitignore, claude_xml, output_file, fs>>
runVars == <<pc, i, queue, gitignore_rules, global_index, writer, out, err,
             status, visits, loads, nullWrites>>
fnVars == <<call, ret>>
vars == <<optVars, runVars, fnVars>>

\* ---------------------------------------------------------------- bounds
MaxRoots == 3
MaxText == 4
MaxRules == 2
MaxContent == 5

\* ---------------------------------------------------------------- strings
NL == "\n"
CR == "\r"
NUL == "NUL"

Str(S, n) == UNION {[1..k -> S] : k \in 0..n}

RECURSIVE IndexOf(_, _, _)
\* first position >= from of a byte of set cs in s, or 0
IndexOf(s, cs, from) ==
    IF from > Len(s) THEN 0
    ELSE IF s[from] \in cs THEN from
    ELSE IndexOf(s, cs, from + 1)

RECURSIVE LastIndexOf(_, _, _)
LastIndexOf(s, c, from) ==
    IF from < 1 THEN 0
    ELSE IF s[from] = c THEN from
    ELSE LastIndexOf(s, c, from - 1)

Drop(s, n) == SubSeq(s, n + 1, Len(s))
Take(s, n) == SubSeq(s, 1, n)

StartsWith(s, p) == Len(s) >= Len(p) /\ Take(s, Len(p)) = p

RECURSIVE Find(_, _, _)
\* first position >= from where d occurs in s, or 0
Find(s, d, from) ==
    IF from + Len(d) - 1 > Len(s) THEN 0
    ELSE IF SubSeq(s, from, from + Len(d) - 1) = d THEN from
    ELSE Find(s, d, from + 1)

Contains(s, d) == Find(s, d, 1) # 0

RECURSIVE Split(_, _)
\* the pieces of s between the non-overlapping occurrences of d, left to right
Split(s, d) ==
    LET k == Find(s, d, 1)
    IN IF k = 0 THEN <<s>>
       ELSE <<Take(s, k - 1)>> \o Split(Drop(s, k + Len(d) - 1), d)

RECURSIVE Flatten(_)
Flatten(ss) == IF ss = <<>> THEN <<>> ELSE Head(ss) \o Flatten(Tail(ss))

\* what printf's %s prints of std::string::c_str(): the bytes before the first NUL
c_str(s) ==
    LET k == IndexOf(s, {NUL}, 1) IN IF k = 0 THEN s ELSE Take(s, k - 1)

\* ---------------------------------------------------------------- fnmatch(3)
RECURSIVE fnmatch(_, _)
\* fnmatch(pattern, string, 0) == 0, for patterns made of literals, '*' and '?'
fnmatch(pattern, string) ==
    IF pattern = <<>> THEN string = <<>>
    ELSE IF Head(pattern) = "*"
         THEN \/ fnmatch(Tail(pattern), string)
              \/ (string # <<>> /\ fnmatch(pattern, Tail(string)))
    ELSE IF string = <<>> THEN FALSE
    ELSE IF Head(pattern) = "?" THEN fnmatch(Tail(pattern), Tail(string))
    ELSE Head(pattern) = Head(string) /\ fnmatch(Tail(pattern), Tail(string))

\* std::filesystem::path(p).filename()
filename(p) == Drop(p, LastIndexOf(p, "/", Len(p)))

\* std::filesystem::path(p).parent_path()
parent_path(p) ==
    LET k == LastIndexOf(p, "/", Len(p))
    IN IF k = 0 THEN <<>> ELSE IF k = 1 THEN <<"/">> ELSE Take(p, k - 1)

\* ---------------------------------------------------------------- gitignore
\* getline(3) / getdelim of part_000: the next line, its '\n' included; the last
\* line may lack it
RECURSIVE getlines(_)
getlines(text) ==
    IF text = <<>> THEN <<>>
    ELSE LET k == IndexOf(text, {NL}, 1)
         IN IF k = 0 THEN <<text>>
            ELSE <<Take(text, k)>> \o getlines(Drop(text, k))

\* main.cpp: line[strcspn(line, "\r\n")] = 0
strcspn_cut(line) ==
    LET k == IndexOf(line, {CR, NL}, 1)
    IN IF k = 0 THEN line ELSE Take(line, k - 1)

\* part_000: line.erase(std::remove(..., '\r'), ...); the same for '\n'
remove_crlf(line) == SelectSeq(line, LAMBDA c : c \notin {CR, NL})

strip_line(b, line) == IF b = "main" THEN strcspn_cut(line) ELSE remove_crlf(line)

\* mutant: a blank line is kept as an empty rule
keep_rule_blank(line) == Len(line) = 0 \/ line[1] # "#"

keep_rule(line) == Len(line) > 0 /\ line[1] # "#"

\* the text of a file that does not exist
NoFile == <<"NoFile">>

\* the rules read from a .gitignore holding text (NoFile: fopen fails)
read_gitignore(b, text) ==
    IF text = NoFile THEN <<>>
    ELSE LET stripped == [k \in 1..Len(getlines(text)) |->
                             strip_line(b, getlines(text)[k])]
         IN SelectSeq(stripped, keep_rule)

\* one rule against one entry, the body of the loop of should_ignore
rule_hits(rule, name, isdir) ==
    \/ fnmatch(rule, name)
    \/ (isdir /\ fnmatch(name \o <<"/">>, rule))

should_ignore(path, isdir, rules) ==
    \E k \in 1..Len(rules) : rule_hits(rules[k], filename(path), isdir)

\* mutant: the extension is looked for anywhere in the name
ends_with_anywhere(name, ext) == Contains(name, ext)

\* filename.size() >= ext.size() && filename.compare(size - ext.size(), ext.size(), ext) == 0
ends_with(name, ext) ==
    Len(name) >= Len(ext) /\ SubSeq(name, Len(name) - Len(ext) + 1, Len(name)) = ext

\* mutant: the hidden test without the include_hidden flag
hidden_check_flagless(name, hidden) == name # <<>> /\ name[1] = "."

\* should_ignore_file: !include_hidden && filename[0] == '.'
hidden_check(name, hidden) == ~hidden /\ name # <<>> /\ name[1] = "."

pattern_check(name, patterns) ==
    \E k \in 1..Len(patterns) : fnmatch(patterns[k], name)

extension_check(name, exts) ==
    exts # <<>> /\ ~(\E k \in 1..Len(exts) : ends_with(name, exts[k]))

should_ignore_file(name, patterns, exts, hidden) ==
    IF hidden_check(name, hidden) THEN TRUE
    ELSE IF pattern_check(name, patterns) THEN TRUE
    ELSE extension_check(name, exts)

\* ---------------------------------------------------------------- file system
GITIGNORE == <<".", "g", "i", "t", "i", "g", "n", "o", "r", "e">>

\* The tree the run is started in. Paths are relative to the working directory,
\* except the one of "/.gitignore".
NodePath ==
    [n \in {"d", "d/.gitignore", "d/.h", "d/a.c", "d/e.c", "d/u.c", "d/s", "d/s/b.o",
            "f.o", ".gitignore", "/.gitignore"} |->
        CASE n = "d" -> <<"d">>
          [] n = "d/.gitignore" -> <<"d", "/">> \o GITIGNORE
          [] n = "d/.h" -> <<"d", "/", ".", "h">>
          [] n = "d/a.c" -> <<"d", "/", "a", ".", "c">>
          [] n = "d/e.c" -> <<"d", "/", "e", ".", "c">>
          [] n = "d/u.c" -> <<"d", "/", "u", ".", "c">>
          [] n = "d/s" -> <<"d", "/", "s">>
          [] n = "d/s/b.o" -> <<"d", "/", "s", "/", "b", ".", "o">>
          [] n = "f.o" -> <<"f", ".", "o">>
          [] n = ".gitignore" -> GITIGNORE
          [] n = "/.gitignore" -> <<"/">> \o GITIGNORE]

Nodes == DOMAIN NodePath
DirNodes == {"d", "d/s"}
FileNodes == Nodes \ DirNodes
GitNodes == {"d/.gitignore", ".gitignore", "/.gitignore"}
Cwd == "cwd"
None == "none"

\* two orders in which readdir may hand out the tree (both depth first)
OrderA == <<".gitignore", "d", "d/.gitignore", "d/.h", "d/a.c", "d/e.c", "d/s",
            "d/s/b.o", "d/u.c", "f.o">>
OrderB == <<"f.o", "d", "d/u.c", "d/s", "d/s/b.o", "d/e.c", "d/a.c", "d/.h",
            "d/.gitignore", ".gitignore">>

\* the node a path string names: "." and a leading "./" mean the working directory
Resolve(f, p) ==
    LET q == IF StartsWith(p, <<".", "/">>) THEN Drop(p, 2) ELSE p
    IN IF p = <<".">> THEN Cwd
       ELSE IF \E n \in Nodes : NodePath[n] = q /\ (n \in DirNodes \/ f.content[n] # NoFile)
            THEN CHOOSE n \in Nodes : NodePath[n] = q
            ELSE None

exists(f, p) == Resolve(f, p) # None
is_directory(f, p) == Resolve(f, p) \in DirNodes \cup {Cwd}
is_regular_file(f, p) == Resolve(f, p) \in FileNodes

Below(n, r) ==
    /\ n # "/.gitignore"
    /\ n # r
    /\ r = Cwd \/ StartsWith(NodePath[n], NodePath[r] \o <<"/">>)

\* the entries recursive_directory_iterator(root) produces, as path strings
Entries(f, root) ==
    LET r == Resolve(f, root)
        under == SelectSeq(f.order,
                     LAMBDA n : Below(n, r) /\ (n \in DirNodes \/ f.content[n] # NoFile))
    IN [k \in 1..Len(under) |->
           IF r = Cwd THEN root \o <<"/">> \o NodePath[under[k]] ELSE NodePath[under[k]]]

\* read_file_content: the bytes of the file, "" when fopen fails
can_open(f, p) == Resolve(f, p) \in FileNodes /\ Resolve(f, p) \in f.readable
read_file_content(f, p) == IF can_open(f, p) THEN f.content[Resolve(f, p)] ELSE <<>>

\* the text of the rule file read for a root: <parent_path>/.gitignore
gitignore_path(root) == parent_path(root) \o <<"/">> \o GITIGNORE
gitignore_text(f, root) ==
    LET g == gitignore_path(root)
        n == IF g[1] = "/"
             THEN (IF g = NodePath["/.gitignore"] THEN "/.gitignore" ELSE None)
             ELSE Resolve(f, g)
    IN IF n \in FileNodes /\ n \in f.readable THEN f.content[n] ELSE NoFile

\* ---------------------------------------------------------------- output
\* one record per write to the primary output
Rec(k, idx, p, c) == [k |-> k, index |-> idx, path |-> p, content |-> c]
OpenTag == Rec("<documents>", 0, <<>>, <<>>)
CloseTag == Rec("</documents>", 0, <<>>, <<>>)

\* print_path: what it writes, and the value it leaves in global_index
print_path(path, content, xml, idx) ==
    IF xml THEN <<Rec("document", idx, path, content)>>
    ELSE <<Rec("plain", 0, path, content)>>

\* mutant: global_index++ forgotten
next_index_stuck(xml, idx) == idx

next_index(xml, idx) == IF xml THEN idx + 1 ELSE idx

Delim == <<NL, "-", "-", "-", NL>>

\* mutant: "%s\n---\n%s---\n", the newline after the content forgotten
plain_bytes_glued(path, content) ==
    c_str(path) \o Delim \o c_str(content) \o <<"-", "-", "-", NL>>

\* the bytes of fprintf(writer, "%s\n---\n%s\n---\n", path.c_str(), content.c_str())
plain_bytes(path, content) == c_str(path) \o Delim \o c_str(content) \o Delim

\* mutant: the content is printed without the test for empty content
process_file_legacy(f, path) == IF ~can_open(f, path) THEN "unreadable" ELSE "printed"

\* mutant: a file that cannot be opened is passed over without a warning
process_file_silent(f, path) ==
    IF read_file_content(f, path) = <<>> THEN "empty" ELSE "printed"

\* process_file: "unreadable" (warning, nothing printed), "empty" or "printed"
process_file(f, path) ==
    IF ~can_open(f, path) THEN "unreadable"
    ELSE IF read_file_content(f, path) = <<>> THEN "empty"
    ELSE "printed"

\* mutant: a file that ends with a listed extension is taken at once, the
\* gitignore rules are consulted only when no extension list is given
process_entry_allowlisted(f, entry, patterns, exts, hidden, nogit, rules) ==
    IF is_directory(f, entry) THEN "directory"
    ELSE IF should_ignore_file(filename(entry), patterns, exts, hidden) THEN "filtered"
    ELSE IF exts # <<>> THEN process_file(f, entry)
    ELSE IF ~nogit /\ should_ignore(entry, is_directory(f, entry), rules) THEN "gitignored"
    ELSE process_file(f, entry)

\* the body of the loop of process_directory, for one entry
process_entry(f, entry, patterns, exts, hidden, nogit, rules) ==
    IF is_directory(f, entry) THEN "directory"
    ELSE IF should_ignore_file(filename(entry), patterns, exts, hidden) THEN "filtered"
    ELSE IF ~nogit /\ should_ignore(entry, is_directory(f, entry), rules) THEN "gitignored"
    ELSE process_file(f, entry)

\* the first root of the run, as main tests it: path == paths[0]
is_first(ps, k) == ps[k] = ps[1]

Visit(path, src, verdict) ==
    [path |-> path, src |-> src, root |-> i, verdict |-> verdict,
     index |-> global_index, pos |-> Len(out)]

Warning(k, path) == [k |-> k, path |-> path]

\* fprintf(NULL, ...) is undefined: the process dies, or the call has no effect
UB == {"crash", "noop"}

\* the writes recs of one step, then the step's other effects
Write(recs, ub, verdict, visit, nextpc, nexti, nextq, nextstatus) ==
    IF writer = "null" /\ recs # <<>> /\ ub = "crash"
    THEN /\ nullWrites' = nullWrites + 1
         /\ status' = "crash"
         /\ pc' = "done"
         /\ UNCHANGED <<out, global_index, visits, err, i, queue>>
    ELSE /\ out' = IF writer = "null" THEN out ELSE out \o recs
         /\ nullWrites' = nullWrites + (IF writer = "null" THEN Len(recs) ELSE 0)
         /\ global_index' = IF verdict = "printed"
                            THEN next_index(claude_xml, global_index)
                            ELSE global_index
         /\ visits' = IF verdict = "none" THEN visits ELSE Append(visits, visit)
         /\ err' = IF verdict = "unreadable"
                   THEN Append(err, Warning("skip", visit.path))
                   ELSE err
         /\ pc' = nextpc
         /\ i' = nexti
         /\ queue' = nextq
         /\ status' = nextstatus

\* ---------------------------------------------------------------- main
\* main: the sink is opened, its result is not tested
OpenOutput ==
    /\ pc = "open"
    /\ writer' = IF output_file = <<>> THEN "stdout"
                 ELSE IF fs.out_ok THEN "file" ELSE "null"
    /\ pc' = "loop"
    /\ UNCHANGED <<optVars, fnVars, i, queue, gitignore_rules, global_index, out,
                   err, status, visits, loads, nullWrites>>

\* mutant: a missing root is reported and skipped, the loop goes on
RootMissing_continue ==
    /\ pc = "loop"
    /\ i <= Len(paths)
    /\ ~exists(fs, paths[i])
    /\ err' = Append(err, Warning("nopath", paths[i]))
    /\ i' = i + 1
    /\ UNCHANGED <<optVars, fnVars, pc, status, queue, gitignore_rules, global_index,
                   writer, out, visits, loads, nullWrites>>

\* main: if (!fs::exists(path)) { printe(...); return 1; }
RootMissing ==
    /\ pc = "loop"
    /\ i <= Len(paths)
    /\ ~exists(fs, paths[i])
    /\ err' = Append(err, Warning("nopath", paths[i]))
    /\ status' = "exit1"
    /\ pc' = "done"
    /\ UNCHANGED <<optVars, fnVars, i, queue, gitignore_rules, global_index, writer,
                   out, visits, loads, nullWrites>>

\* mutant: a root that is a file goes through the filters of process_directory
root_verdict_filtered(f, root, patterns, exts, hidden, nogit, rules) ==
    process_entry(f, root, patterns, exts, hidden, nogit, rules)

\* process_path on a regular file: process_file, no filter is consulted
root_verdict(f, root, patterns, exts, hidden, nogit, rules) == process_file(f, root)

\* mutant: the rules of the new root replace the list
accumulate_reset(old, new) == new

\* gitignore_rules.insert(gitignore_rules.end(), rules.begin(), rules.end())
accumulate(old, new) == old \o new

loaded_rules(b, f, root, nogit) ==
    IF nogit THEN <<>> ELSE read_gitignore(b, gitignore_text(f, root))

opening(xml, ps, k) == IF xml /\ is_first(ps, k) THEN <<OpenTag>> ELSE <<>>

\* main: one iteration of the loop over paths, up to the call of process_path;
\* a root that is a regular file is processed in the same step
BeginRoot ==
    /\ pc = "loop"
    /\ i <= Len(paths)
    /\ exists(fs, paths[i])
    /\ LET root == paths[i]
           rules == loaded_rules(build, fs, root, ignore_gitignore)
           verdict == IF is_regular_file(fs, root)
                      THEN root_verdict(fs, root, ignore_patterns, extensions,
                                        include_hidden, ignore_gitignore,
                                        accumulate(gitignore_rules, rules))
                      ELSE "none"
           recs == opening(claude_xml, paths, i) \o
                   (IF verdict = "printed"
                    THEN print_path(root, read_file_content(fs, root), claude_xml,
                                    global_index)
                    ELSE <<>>)
       IN /\ gitignore_rules' = accumulate(gitignore_rules, rules)
          /\ loads' = IF ignore_gitignore THEN loads
                      ELSE Append(loads, [root |-> i, file |-> gitignore_path(root),
                                          rules |-> rules])
          /\ \E ub \in UB :
                IF is_regular_file(fs, root)
                THEN Write(recs, ub, verdict, Visit(root, "root", verdict),
                           "loop", i + 1, queue, status)
                ELSE Write(recs, ub, "none", Visit(root, "root", "none"),
                           "walk", i, Entries(fs, root), status)
    /\ UNCHANGED <<optVars, fnVars, writer>>

\* process_directory: one iteration of the loop over the entries
VisitEntry ==
    /\ pc = "walk"
    /\ queue # <<>>
    /\ LET entry == Head(queue)
           verdict == process_entry(fs, entry, ignore_patterns, extensions,
                                    include_hidden, ignore_gitignore, gitignore_rules)
           recs == IF verdict = "printed"
                   THEN print_path(entry, read_file_content(fs, entry), claude_xml,
                                   global_index)
                   ELSE <<>>
       IN \E ub \in UB :
             Write(recs, ub, verdict, Visit(entry, "dir", verdict),
                   "walk", i, Tail(queue), status)
    /\ UNCHANGED <<optVars, fnVars, writer, gitignore_rules, loads>>

\* process_directory returns: the loop of main goes to the next root
EndDirectory ==
    /\ pc = "walk"
    /\ queue = <<>>
    /\ pc' = "loop"
    /\ i' = i + 1
    /\ UNCHANGED <<optVars, fnVars, queue, gitignore_rules, global_index, writer,
                   out, err, status, visits, loads, nullWrites>>

closing(xml) == IF xml THEN <<CloseTag>> ELSE <<>>

\* main: after the loop, the closing tag and return 0
Finish ==
    /\ pc = "loop"
    /\ i > Len(paths)
    /\ \E ub \in UB :
          Write(closing(claude_xml), ub, "none", Visit(<<>>, "root", "none"),
                "done", i, queue, "exit0")
    /\ UNCHANGED <<optVars, fnVars, writer, gitignore_rules, loads>>

Next == OpenOutput \/ RootMissing \/ BeginRoot \/ VisitEntry \/ EndDirectory \/ Finish

\* ---------------------------------------------------------------- harness
\* read_gitignore applied to the text of a rule file
ReadGitignoreCall ==
    /\ call.fn = "read_gitignore"
    /\ ~ret.done
    /\ ret' = [done |-> TRUE, value |-> read_gitignore(call.b, call.text)]
    /\ UNCHANGED <<optVars, runVars, call>>

\* should_ignore applied to an entry and a rule list
ShouldIgnoreCall ==
    /\ call.fn = "should_ignore"
    /\ ~ret.done
    /\ ret' = [done |-> TRUE, value |-> should_ignore(call.path, call.isdir, call.rules)]
    /\ UNCHANGED <<optVars, runVars, call>>

\* the extension test of should_ignore_file applied to a file name
ExtensionCheckCall ==
    /\ call.fn = "extension_check"
    /\ ~ret.done
    /\ ret' = [done |-> TRUE, value |-> extension_check(call.name, call.exts)]
    /\ UNCHANGED <<optVars, runVars, call>>

\* ---------------------------------------------------------------- inputs
Builds == {"main", "part_000"}

\* getopt loop: main.cpp gives -i an argument (an ignore pattern) and never sets
\* ignore_gitignore; part_000 makes -i set ignore_gitignore and reads no pattern
Parsed(b, patterns, nogit) ==
    /\ b = "main" => nogit = FALSE
    /\ b = "part_000" => patterns = <<>>

\* main: if (paths.empty()) paths.push_back(".")
default_paths(args) == IF args = <<>> THEN <<<<".">>>> ELSE args

R_missing == <<"m">>
R_dot == <<".">>
T_o == <<"*", ".", "o", NL>>
T_c == <<"#", NL, NL, "*", ".", "c", CR, NL>>
X == <<"x">>

MkFs(t0, t1, cf, order, ok) ==
    [content |-> [n \in FileNodes |->
                     CASE n = "/.gitignore" -> t0
                       [] n = "d/.gitignore" -> t1
                       [] n = ".gitignore" -> NoFile
                       [] n = "d/e.c" -> <<>>
                       [] n = "f.o" -> cf
                       [] OTHER -> X],
     readable |-> FileNodes \ {"d/u.c"},
     order |-> order,
     out_ok |-> ok]

RunStart ==
    /\ pc = "open"
    /\ i = 1
    /\ queue = <<>>
    /\ gitignore_rules = <<>>
    /\ global_index = 1
    /\ writer = "unset"
    /\ out = <<>>
    /\ err = <<>>
    /\ status = "running"
    /\ visits = <<>>
    /\ loads = <<>>
    /\ nullWrites = 0

NoCall ==
    /\ call = [fn |-> "none"]
    /\ ret = [done |-> FALSE, value |-> <<>>]

\* the sink: stdout, a file that opens, a file that does not
Sinks == {<<<<>>, TRUE>>, <<<<"o">>, TRUE>>, <<<<"o">>, FALSE>>}

\* runs over lists of roots
RootNames == {NodePath["d"], NodePath["d/s"], NodePath["f.o"], R_missing}

\* runs over filter settings
FilterRoots == {<<>>, <<NodePath["d"]>>, <<NodePath["f.o"]>>, <<NodePath["d/.h"]>>,
                <<NodePath["d/e.c"]>>, <<NodePath["d/u.c"]>>,
                <<NodePath["f.o"], NodePath["d/.h"]>>,
                <<NodePath["d/e.c"], NodePath["d"]>>, <<R_missing>>}
P_o == <<"*", ".", "o">>
P_dot == <<".", "*">>
E_c == <<".", "c">>
E_o == <<".", "o">>
T_h == <<".", "?", NL, "*", ".", "c">>

Init ==
    /\ \E args \in Str(RootNames, MaxRoots) : paths = default_paths(args)
    /\ build \in Builds
    /\ extensions = <<>>
    /\ ignore_patterns = <<>>
    /\ include_hidden = FALSE
    /\ ignore_gitignore \in BOOLEAN
    /\ Parsed(build, ignore_patterns, ignore_gitignore)
    /\ claude_xml \in BOOLEAN
    /\ \E sink \in Sinks, t1 \in {NoFile, T_c}, order \in {OrderA, OrderB} :
          /\ output_file = sink[1]
          /\ fs = MkFs(T_o, t1, X, order, sink[2])
    /\ RunStart
    /\ NoCall

Spec == Init /\ [][Next]_vars

InitFilter ==
    /\ \E args \in FilterRoots : paths = default_paths(args)
    /\ build \in Builds
    /\ extensions \in {<<>>, <<E_c>>, <<E_c, E_o>>}
    /\ ignore_patterns \in {<<>>, <<P_o>>, <<P_o, P_dot>>}
    /\ include_hidden \in BOOLEAN
    /\ ignore_gitignore \in BOOLEAN
    /\ Parsed(build, ignore_patterns, ignore_gitignore)
    /\ claude_xml \in BOOLEAN
    /\ output_file = <<>>
    /\ \E t0 \in {NoFile, T_o}, t1 \in {NoFile, T_c, T_h}, order \in {OrderA, OrderB} :
          fs = MkFs(t0, t1, X, order, TRUE)
    /\ RunStart
    /\ NoCall

SpecFilter == InitFilter /\ [][Next]_vars

\* plain runs over the content of f.o
ContentBytes == {"x", "-", NL, NUL}
PlainRoots == {<<NodePath["f.o"]>>, <<NodePath["f.o"], NodePath["d/a.c"]>>,
               <<NodePath["d/s"], NodePath["f.o"]>>, <<NodePath["f.o"], R_missing>>}

InitPlain ==
    /\ paths \in PlainRoots
    /\ build = "main"
    /\ extensions = <<>>
    /\ ignore_patterns = <<>>
    /\ include_hidden = FALSE
    /\ ignore_gitignore = FALSE
    /\ claude_xml = FALSE
    /\ output_file = <<>>
    /\ \E cf \in Str(ContentBytes, MaxContent) : fs = MkFs(NoFile, NoFile, cf, OrderA, TRUE)
    /\ RunStart
    /\ NoCall

SpecPlain == InitPlain /\ [][Next]_vars

RunIdle ==
    /\ build = "main" /\ paths = <<>> /\ extensions = <<>> /\ ignore_patterns = <<>>
    /\ include_hidden = FALSE /\ ignore_gitignore = FALSE /\ claude_xml = FALSE
    /\ output_file = <<>>
    /\ fs = MkFs(NoFile, NoFile, X, OrderA, TRUE)
    /\ RunStart

\* read_gitignore over every short text of a rule file
GitBytes == {"a", "#", CR, NL}

InitGitignore ==
    /\ RunIdle
    /\ \E b \in Builds, text \in Str(GitBytes, MaxText) :
          call = [fn |-> "read_gitignore", b |-> b, text |-> text]
    /\ ret = [done |-> FALSE, value |-> <<>>]

SpecGitignore == InitGitignore /\ [][ReadGitignoreCall]_vars

\* should_ignore over entries and rule lists
EntryNames == {<<"b">>, <<"b", "b">>, <<"b", "*">>, <<"d", "/", "b", "b">>}
RulePatterns == {<<"b">>, <<"b", "/">>, <<"b", "*", "/">>, <<"b", "b", "/">>,
                 <<"?", "?">>, <<"*", "/">>}

InitMatch ==
    /\ RunIdle
    /\ \E path \in EntryNames, isdir \in BOOLEAN, rules \in Str(RulePatterns, MaxRules) :
          call = [fn |-> "should_ignore", path |-> path, isdir |-> isdir, rules |-> rules]
    /\ ret = [done |-> FALSE, value |-> FALSE]

SpecMatch == InitMatch /\ [][ShouldIgnoreCall]_vars

\* the extension test over short file names and lists of extensions
NameBytes == {".", "c", "C"}
ExtNames == {<<>>, <<"c">>, <<".", "c">>, <<".", "C">>}

InitExt ==
    /\ RunIdle
    /\ \E name \in Str(NameBytes, MaxText) \ {<<>>}, exts \in Str(ExtNames, MaxRules) :
          call = [fn |-> "extension_check", name |-> name, exts |-> exts]
    /\ ret = [done |-> FALSE, value |-> FALSE]

SpecExt == InitExt /\ [][ExtensionCheckCall]_vars

\* runs over the rule files of the tree: the one of the file-system root, the
\* one of the working directory, the one inside d
MkFsCwd(t0, t1, tw, order) ==
    [MkFs(t0, t1, X, order, TRUE) EXCEPT !.content[".gitignore"] = tw]

RuleRoots == {<<>>, <<NodePath["d"]>>, <<NodePath["f.o"]>>, <<NodePath["d/s"]>>,
              <<NodePath["d/a.c"]>>, <<NodePath["d"], NodePath["d/s"]>>, <<R_missing>>}

InitRules ==
    /\ \E args \in RuleRoots : paths = default_paths(args)
    /\ build \in Builds
    /\ extensions = <<>>
    /\ ignore_patterns = <<>>
    /\ include_hidden = FALSE
    /\ ignore_gitignore \in BOOLEAN
    /\ Parsed(build, ignore_patterns, ignore_gitignore)
    /\ claude_xml \in BOOLEAN
    /\ output_file = <<>>
    /\ \E t0 \in {NoFile, T_o}, t1 \in {NoFile, T_c}, tw \in {NoFile, T_c, T_o},
          order \in {OrderA, OrderB} :
          fs = MkFsCwd(t0, t1, tw, order)
    /\ RunStart
    /\ NoCall

SpecRules == InitRules /\ [][Next]_vars

\* ---------------------------------------------------------------- properties
Count(seq, Test(_)) == Len(SelectSeq(seq, Test))
IsDoc(r) == r.k = "document"
IsBlock(r) == r.k \in {"document", "plain"}
Docs == SelectSeq(out, IsDoc)
SinkOK == writer \in {"stdout", "file"}
Done == pc = "done"

\* the output position and the index as they were after visit j was handled
PosAfter(j) == IF j < Len(visits) THEN visits[j + 1].pos ELSE Len(out)
IndexAfter(j) == IF j < Len(visits) THEN visits[j + 1].index ELSE global_index
BlocksOf(j) == {k \in (visits[j].pos + 1)..PosAfter(j) : IsBlock(out[k])}
Skipped == {"filtered", "gitignored", "unreadable", "empty", "directory"}

\* C1: in XML mode a run that completes, for every list of roots (a root named
\* twice included) and whether or not it wrote a document, has written the line
\* <documents> exactly once, as the first line, and </documents> exactly once,
\* as the last line.
C1_Envelope ==
    (Done /\ claude_xml /\ SinkOK /\ status = "exit0") =>
        /\ Count(out, LAMBDA r : r = OpenTag) = 1
        /\ Count(out, LAMBDA r : r = CloseTag) = 1
        /\ out[1] = OpenTag
        /\ out[Len(out)] = CloseTag

\* C2: in XML mode the k-th document written carries index k, the counter is one
\* past the number of documents written, and a candidate that is filtered out,
\* unreadable or empty leaves the counter as it was.
C2_Indices ==
    (claude_xml /\ SinkOK) =>
        /\ \A k \in 1..Len(Docs) : Docs[k].index = k
        /\ global_index = Len(Docs) + 1
        /\ \A j \in 1..Len(visits) :
              IndexAfter(j) = visits[j].index + Cardinality(BlocksOf(j))
        /\ \A j \in 1..Len(visits) :
              visits[j].verdict \in Skipped => IndexAfter(j) = visits[j].index

C2_Witness ==
    /\ Done /\ status = "exit0" /\ claude_xml /\ SinkOK
    /\ Len(Docs) >= 3
    /\ \E j, k, l \in 1..Len(visits) :
          /\ j < k /\ k < l
          /\ visits[j].verdict = "printed"
          /\ visits[k].verdict \in {"unreadable", "empty"}
          /\ visits[l].verdict = "printed"
          /\ visits[l].root > visits[j].root
    /\ \E k \in 1..Len(visits) : visits[k].verdict \in {"filtered", "gitignored"}

\* C3: when the output file cannot be opened the run ends with a non-zero status
\* before any root is touched and no write is attempted on the null sink.
C3_FailClosed ==
    writer = "null" =>
        /\ nullWrites = 0
        /\ visits = <<>>
        /\ loads = <<>>
        /\ Done => status = "exit1"

\* C5: a run stops with status 1 at the first root that does not exist: every
\* root before it was loaded, walked to its end and written, in argument order,
\* and nothing was loaded, visited or written for that root or a later one.
EntriesHandled(k) ==
    LET mine == SelectSeq(visits, LAMBDA v : v.root = k)
    IN IF is_directory(fs, paths[k])
       THEN [j \in 1..Len(mine) |-> mine[j].path] = Entries(fs, paths[k])
       ELSE Len(mine) = 1 /\ mine[1].path = paths[k]

Written(j) ==
    (visits[j].verdict = "printed" /\ SinkOK) =>
        \E k \in BlocksOf(j) :
            /\ out[k].path = visits[j].path
            /\ out[k].content = read_file_content(fs, visits[j].path)

C5_FirstMissingStops ==
    /\ status = "exit1" =>
          /\ Done
          /\ i <= Len(paths)
          /\ ~exists(fs, paths[i])
          /\ \A k \in 1..(i - 1) : exists(fs, paths[k]) /\ EntriesHandled(k)
          /\ \A j \in 1..Len(visits) : visits[j].root < i /\ Written(j)
          /\ \A j \in 1..Len(loads) : loads[j].root < i
          /\ ~ignore_gitignore => [j \in 1..Len(loads) |-> loads[j].root] = [j \in 1..(i - 1) |-> j]
          /\ PosAfter(Len(visits)) = Len(out)
          /\ err[Len(err)] = Warning("nopath", paths[i])
    /\ \A j \in 1..(Len(visits) - 1) : visits[j].root <= visits[j + 1].root
    /\ (Done /\ \E k \in 1..Len(paths) : ~exists(fs, paths[k])) => status \in {"exit1", "crash"}

C5_Witness ==
    /\ status = "exit1" /\ SinkOK
    /\ i = 2 /\ Len(paths) = 3
    /\ exists(fs, paths[3])
    /\ is_directory(fs, paths[1])
    /\ \E j \in 1..Len(visits) : visits[j].verdict = "printed"
    /\ loads # <<>>

\* C9: the rule list is the concatenation of every load made so far, in root
\* order, and each directory candidate was judged against the rules of its own
\* root and of all roots before it.
RulesUpTo(k) ==
    Flatten([j \in 1..Len(SelectSeq(loads, LAMBDA l : l.root <= k)) |->
                SelectSeq(loads, LAMBDA l : l.root <= k)[j].rules])

C9_RulesAccumulate ==
    /\ gitignore_rules = RulesUpTo(Len(paths))
    /\ ~ignore_gitignore =>
          \A k \in 1..Len(paths) :
              (k < i \/ (k = i /\ pc = "walk")) =>
                  \E j \in 1..Len(loads) :
                      /\ loads[j].root = k
                      /\ loads[j].rules =
                            read_gitignore(build, gitignore_text(fs, paths[k]))
    /\ \A j \in 1..Len(visits) :
          visits[j].src = "dir" =>
              visits[j].verdict =
                  process_entry(fs, visits[j].path, ignore_patterns, extensions,
                                include_hidden, ignore_gitignore,
                                RulesUpTo(visits[j].root))

C9_Witness ==
    /\ Done /\ status = "exit0" /\ ~ignore_gitignore
    /\ \E j \in 1..Len(visits) :
          /\ visits[j].root = 2
          /\ visits[j].verdict = "gitignored"
          /\ ~should_ignore(visits[j].path, FALSE, loads[2].rules)
          /\ should_ignore(visits[j].path, FALSE, loads[1].rules)

\* C4: a root that is a regular file is never filtered: whatever the hidden
\* flag, the ignore patterns, the extension list and the gitignore rules are, it
\* is printed when the content read from it is not empty, and its block carries
\* its path and that content.
C4_FileRootBypassesFilters ==
    \A j \in 1..Len(visits) :
        visits[j].src = "root" =>
            /\ is_regular_file(fs, visits[j].path)
            /\ visits[j].verdict \notin {"filtered", "gitignored", "directory"}
            /\ read_file_content(fs, visits[j].path) # <<>> =>
                  /\ visits[j].verdict = "printed"
                  /\ Written(j)
                  /\ Cardinality(BlocksOf(j)) = 1

C4_Witness ==
    /\ Done /\ status = "exit0"
    /\ ~include_hidden /\ ~ignore_gitignore
    /\ extensions = <<E_c>>
    /\ \E j, k \in 1..Len(visits) :
          /\ visits[j].src = "root" /\ visits[j].verdict = "printed"
          /\ visits[k].src = "root" /\ visits[k].verdict = "printed"
          /\ should_ignore(visits[j].path, FALSE, gitignore_rules)
          /\ pattern_check(filename(visits[j].path), ignore_patterns)
          /\ extension_check(filename(visits[j].path), extensions)
          /\ hidden_check(filename(visits[k].path), include_hidden)
          /\ should_ignore(visits[k].path, FALSE, gitignore_rules)
          /\ Cardinality(BlocksOf(j)) = 1 /\ Cardinality(BlocksOf(k)) = 1

\* C10: a file that is read successfully and is empty writes nothing and leaves
\* the document index as it was, as a candidate of a directory and as a root.
EmptyFile(p) == can_open(fs, p) /\ read_file_content(fs, p) = <<>>

C10_EmptyFileSilent ==
    \A j \in 1..Len(visits) :
        EmptyFile(visits[j].path) =>
            /\ visits[j].verdict \in {"empty", "filtered", "gitignored"}
            /\ BlocksOf(j) = {}
            /\ IndexAfter(j) = visits[j].index
            /\ \A k \in 1..Len(out) : out[k].path # visits[j].path
            /\ \A k \in 1..Len(err) : err[k].path # visits[j].path

C10_Witness ==
    /\ Done /\ status = "exit0" /\ claude_xml
    /\ \E j, k \in 1..Len(visits) :
          /\ visits[j].src = "root" /\ visits[j].verdict = "empty"
          /\ visits[k].src = "dir" /\ visits[k].verdict = "empty"
    /\ Len(Docs) >= 1

\* the bytes of a plain run's output
Bytes == Flatten([k \in 1..Len(out) |-> plain_bytes(out[k].path, out[k].content)])

\* path 1, content 1, path 2, content 2, ..., and the empty piece after the last
\* delimiter
Recovered ==
    LET pieces == Split(Bytes, Delim)
    IN /\ Len(pieces) = 2 * Len(out) + 1
       /\ \A k \in 1..Len(out) :
             /\ pieces[2 * k - 1] = out[k].path
             /\ pieces[2 * k] = out[k].content
       /\ pieces[Len(pieces)] = <<>>

PlainDone == Done /\ status = "exit0" /\ ~claude_xml /\ SinkOK

NoNul(str) == NUL \notin {str[k] : k \in 1..Len(str)}

\* C6 as stated, already for contents that are text (no NUL byte): in plain mode
\* splitting the output on "\n---\n" recovers every emitted path and content,
\* whatever the content is.
C6_RoundTripAnyContent ==
    (PlainDone /\ \A k \in 1..Len(out) : NoNul(out[k].content)) => Recovered

\* a string that survives the framing: no NUL byte, no delimiter inside, and no
\* "\n---" at its end
Clean(str) ==
    /\ NoNul(str)
    /\ ~Contains(str, Delim)
    /\ ~(Len(str) >= 4 /\ SubSeq(str, Len(str) - 3, Len(str)) = <<NL, "-", "-", "-">>)

\* C6 (amended): the round trip holds when every emitted path and content is
\* clean; a content that ends with a newline is recovered exactly.
C6_RoundTripClean ==
    (PlainDone /\ \A k \in 1..Len(out) : Clean(out[k].path) /\ Clean(out[k].content))
        => Recovered

C6_Witness ==
    /\ PlainDone
    /\ Len(out) = 2
    /\ \A k \in 1..Len(out) : Clean(out[k].path) /\ Clean(out[k].content)
    /\ \E k \in 1..Len(out) :
          /\ out[k].content[Len(out[k].content)] = NL
          /\ Contains(out[k].content, <<"-", "-", "-", NL>>)
    /\ Recovered

\* ---------------------------------------------------------------- read_gitignore
GitCall == call.fn = "read_gitignore" /\ ret.done
FirstIs(line, cs) == line # <<>> /\ line[1] \in cs
Blank(line) == line \in {<<NL>>, <<CR, NL>>, <<CR>>}

\* C7 as stated: one rule per line that does not begin with '#', a blank line
\* being stored as the empty rule.
C7_BlankLinesKept ==
    GitCall =>
        /\ Len(ret.value) = Count(getlines(call.text), LAMBDA l : ~FirstIs(l, {"#"}))
        /\ (\E k \in 1..Len(getlines(call.text)) : Blank(getlines(call.text)[k]))
              => \E k \in 1..Len(ret.value) : ret.value[k] = <<>>

\* a line that is its body followed by one terminator: no stray '\r' inside
Body(line) == SelectSeq(line, LAMBDA c : c \notin {CR, NL})
Plain(line) == \E t \in {<<>>, <<NL>>, <<CR, NL>>, <<CR>>} : line = Body(line) \o t

\* the first byte of the line that is no terminator, "" when there is none
FirstByte(line) == IF Body(line) = <<>> THEN "" ELSE Body(line)[1]

Kept(b, line) ==
    IF b = "main" THEN ~FirstIs(line, {"#", CR, NL})
    ELSE FirstByte(line) \notin {"", "#"}

\* C7 (amended): one rule per line, in order, except the lines that begin with
\* '#' and the lines that are empty once the terminators are gone; no rule is
\* empty, begins with '#' or holds a terminator.
C7_BlankLinesSkipped ==
    GitCall =>
        LET lines == getlines(call.text)
            kept == SelectSeq(lines, LAMBDA l : Kept(call.b, l))
        IN /\ Len(ret.value) = Len(kept)
           /\ \A k \in 1..Len(ret.value) :
                 /\ ret.value[k] # <<>>
                 /\ ret.value[k][1] # "#"
                 /\ \A j \in 1..Len(ret.value[k]) : ret.value[k][j] \notin {CR, NL}
                 /\ StartsWith(kept[k], <<ret.value[k][1]>>) \/ call.b # "main"
                 /\ Plain(kept[k]) => ret.value[k] = Body(kept[k])

C7_Witness ==
    /\ GitCall
    /\ \E j, k, l \in 1..Len(getlines(call.text)) :
          /\ Blank(getlines(call.text)[j])
          /\ FirstIs(getlines(call.text)[k], {"#"})
          /\ getlines(call.text)[l] = <<"a">>
    /\ ret.value = <<<<"a">>>>

\* ---------------------------------------------------------------- should_ignore
\* C8: should_ignore is true exactly when some rule P, taken as the pattern,
\* matches the base name, or the entry is a directory and P matches base name + "/".
C8_RuleIsThePattern ==
    (call.fn = "should_ignore" /\ ret.done) =>
        ret.value =
            \E k \in 1..Len(call.rules) :
                \/ fnmatch(call.rules[k], filename(call.path))
                \/ (call.isdir /\ fnmatch(call.rules[k], filename(call.path) \o <<"/">>))

\* C11: a candidate that cannot be opened leaves one warning with its path on the
\* diagnostic channel, in visiting order, and nothing on the primary output; the
\* document index stays as it was; the walk goes on with the next candidate and
\* the next roots, and a run whose roots all exist ends with status 0.
Tried(v) == v.verdict \notin {"directory", "filtered", "gitignored"}
Unopenable(v) == Tried(v) /\ ~can_open(fs, v.path)
SkipWarnings == SelectSeq(err, LAMBDA w : w.k = "skip")
OutKinds == {"document", "plain", "<documents>", "</documents>"}

C11_UnreadableSkipped ==
    /\ [k \in 1..Len(SkipWarnings) |-> SkipWarnings[k].path] =
          [k \in 1..Len(SelectSeq(visits, Unopenable)) |->
              SelectSeq(visits, Unopenable)[k].path]
    /\ \A k \in 1..Len(out) : out[k].k \in OutKinds
    /\ \A j \in 1..Len(visits) :
          Unopenable(visits[j]) =>
              /\ visits[j].verdict = "unreadable"
              /\ BlocksOf(j) = {}
              /\ IndexAfter(j) = visits[j].index
              /\ \A k \in 1..Len(out) : out[k].path # visits[j].path
    /\ (Done /\ SinkOK /\ \A k \in 1..Len(paths) : exists(fs, paths[k])) =>
          /\ status = "exit0"
          /\ \A k \in 1..Len(paths) : EntriesHandled(k)
          /\ \A j \in 1..Len(visits) : Written(j)

C11_Witness ==
    /\ Done /\ status = "exit0" /\ SinkOK /\ claude_xml
    /\ \E j, k, l \in 1..Len(visits) :
          /\ j < k /\ k < l
          /\ visits[j].verdict = "unreadable"
          /\ visits[k].verdict = "printed" /\ visits[k].root = visits[j].root
          /\ visits[k].index = visits[j].index
          /\ visits[l].verdict = "printed" /\ visits[l].root > visits[j].root
          /\ Len(SkipWarnings) >= 1

\* C12: a candidate of a directory whose file name starts with "." is rejected
\* when include_hidden is false, whatever the extension list, the ignore
\* patterns and the gitignore rules are; when include_hidden is true no
\* candidate is rejected for its leading ".": a rejected candidate then fails
\* the ignore patterns, the extension list or a gitignore rule.
DirCandidate(v) == v.src = "dir" /\ v.verdict # "directory"
Dotted(p) == filename(p)[1] = "."

C12_HiddenRejected ==
    \A j \in 1..Len(visits) :
        DirCandidate(visits[j]) =>
            /\ (~include_hidden /\ Dotted(visits[j].path)) =>
                  /\ visits[j].verdict = "filtered"
                  /\ BlocksOf(j) = {}
            /\ (include_hidden /\ visits[j].verdict = "filtered") =>
                  \/ pattern_check(filename(visits[j].path), ignore_patterns)
                  \/ extension_check(filename(visits[j].path), extensions)
            /\ (include_hidden /\ Dotted(visits[j].path)
                   /\ ~pattern_check(filename(visits[j].path), ignore_patterns)
                   /\ ~extension_check(filename(visits[j].path), extensions)) =>
                  visits[j].verdict \in {"gitignored", "printed"}

C12_Witness ==
    /\ Done /\ status = "exit0"
    /\ ~include_hidden
    /\ extensions = <<>> /\ ignore_patterns = <<>>
    /\ \E j \in 1..Len(visits) :
          /\ DirCandidate(visits[j])
          /\ Dotted(visits[j].path)
          /\ visits[j].verdict = "filtered"
          /\ ~should_ignore(visits[j].path, FALSE, gitignore_rules)
          /\ can_open(fs, visits[j].path)
          /\ read_file_content(fs, visits[j].path) # <<>>

\* the other half of C12: a dotted candidate printed under include_hidden
C12_ShownWhenIncluded ==
    /\ Done /\ status = "exit0"
    /\ include_hidden
    /\ \E j \in 1..Len(visits) :
          /\ DirCandidate(visits[j])
          /\ Dotted(visits[j].path)
          /\ visits[j].verdict = "printed"
          /\ Cardinality(BlocksOf(j)) = 1

\* C13: with a non-empty extension list a file name passes the extension test
\* exactly when one listed extension is a suffix of it, byte for byte (so ".C"
\* is not ".c"); with an empty list every file name passes.
IsSuffix(name, ext) == \E n \in 0..Len(name) : Drop(name, n) = ext
ExtCall == call.fn = "extension_check" /\ ret.done

C13_ExtensionSuffix ==
    ExtCall =>
        /\ call.exts = <<>> => ret.value = FALSE
        /\ call.exts # <<>> =>
              (ret.value = FALSE <=>
                  \E k \in 1..Len(call.exts) : IsSuffix(call.name, call.exts[k]))

C13_Witness ==
    /\ ExtCall
    /\ Len(call.exts) = 2
    /\ call.exts[1] = <<".", "C">>
    /\ ~IsSuffix(call.name, call.exts[1])
    /\ IsSuffix(call.name, call.exts[2])
    /\ Contains(call.name, call.exts[1])
    /\ ret.value = FALSE

\* C14: a candidate of a directory is handed to process_file exactly when it
\* passes the hidden test, the ignore patterns, the gitignore rules (when they
\* are honoured) and the extension list; the first failing test in the order of
\* the code (hidden, pattern, extension, gitignore) names the verdict, and every
\* order of the four tests, the order hidden, pattern, gitignore, extension
\* included, admits the same candidates; when the gitignore rules are not
\* honoured no candidate is rejected by a rule.
Checks == {"hidden", "pattern", "gitignore", "extension"}
CodeOrder == <<"hidden", "pattern", "extension", "gitignore">>
SpecOrder == <<"hidden", "pattern", "gitignore", "extension">>
Orders == {o \in [1..4 -> Checks] : \A c \in Checks : \E n \in 1..4 : o[n] = c}

Passes(c, v) ==
    LET name == filename(v.path)
    IN CASE c = "hidden" -> include_hidden \/ name[1] # "."
         [] c = "pattern" ->
               ~\E k \in 1..Len(ignore_patterns) : fnmatch(ignore_patterns[k], name)
         [] c = "gitignore" ->
               ignore_gitignore \/
               ~\E k \in 1..Len(RulesUpTo(v.root)) : fnmatch(RulesUpTo(v.root)[k], name)
         [] c = "extension" ->
               extensions = <<>> \/
               \E k \in 1..Len(extensions) : IsSuffix(name, extensions[k])

FirstFail(o, v) ==
    LET fails == {n \in 1..4 : ~Passes(o[n], v)}
    IN IF fails = {} THEN "none"
       ELSE o[CHOOSE n \in fails : \A m \in fails : n <= m]

Admitted(v) == v.verdict \in {"unreadable", "empty", "printed"}

C14_OrderIndependent ==
    \A j \in 1..Len(visits) :
        DirCandidate(visits[j]) =>
            /\ Admitted(visits[j]) <=> \A c \in Checks : Passes(c, visits[j])
            /\ \A o \in Orders :
                  Admitted(visits[j]) <=> FirstFail(o, visits[j]) = "none"
            /\ Admitted(visits[j]) <=> FirstFail(SpecOrder, visits[j]) = "none"
            /\ visits[j].verdict = "gitignored" <=>
                  FirstFail(CodeOrder, visits[j]) = "gitignore"
            /\ visits[j].verdict = "filtered" <=>
                  FirstFail(CodeOrder, visits[j]) \in {"hidden", "pattern", "extension"}
            /\ ignore_gitignore => visits[j].verdict # "gitignored"

C14_Witness ==
    /\ Done /\ status = "exit0"
    /\ ~ignore_gitignore /\ extensions # <<>> /\ gitignore_rules # <<>>
    /\ \E j, k, l \in 1..Len(visits) :
          /\ DirCandidate(visits[j]) /\ DirCandidate(visits[k]) /\ DirCandidate(visits[l])
          /\ FirstFail(CodeOrder, visits[j]) = "extension"
          /\ FirstFail(SpecOrder, visits[j]) = "gitignore"
          /\ visits[j].verdict = "filtered"
          /\ FirstFail(CodeOrder, visits[k]) = "gitignore"
          /\ visits[k].verdict = "gitignored"
          /\ visits[l].verdict = "printed"

\* the last part of C14: a candidate that a rule matches, printed because the
\* rules are not honoured
C14_RulesNotHonoured ==
    /\ Done /\ status = "exit0"
    /\ ignore_gitignore
    /\ \E j \in 1..Len(visits) :
          /\ DirCandidate(visits[j])
          /\ visits[j].verdict = "printed"
          /\ \E t \in {T_o, T_c, T_h} :
                should_ignore(visits[j].path, FALSE, read_gitignore(build, t))
          /\ gitignore_text(fs, paths[visits[j].root]) # NoFile

\* C15: when the gitignore rules are honoured, the rules loaded for a root are
\* those of the .gitignore directly inside the directory that contains the root
\* (the working directory for a root of one component such as "." or "d"), none
\* when that file is missing; the file is read once, before the root is walked;
\* a top-level file of the root that matches one of these rules is not printed,
\* and is printed when the rules are not honoured.
RuleFileOf(root) ==
    LET k == LastIndexOf(root, "/", Len(root))
        g == Take(root, k) \o GITIGNORE
    IN IF k = 0 THEN ".gitignore"
       ELSE IF \E n \in GitNodes : NodePath[n] = g
            THEN CHOOSE n \in GitNodes : NodePath[n] = g
            ELSE None

ContainingRules(root) ==
    LET n == RuleFileOf(root)
    IN IF n = None \/ fs.content[n] = NoFile THEN <<>>
       ELSE read_gitignore(build, fs.content[n])

TopLevel(v) == v.src = "dir" /\ parent_path(v.path) = paths[v.root]
Begun(k) == k < i \/ (k = i /\ pc = "walk")

C15_ParentRuleFile ==
    /\ ~ignore_gitignore =>
          /\ \A j \in 1..Len(loads) :
                loads[j].rules = ContainingRules(paths[loads[j].root])
          /\ \A k \in 1..Len(paths) :
                Len(SelectSeq(loads, LAMBDA l : l.root = k)) = (IF Begun(k) THEN 1 ELSE 0)
          /\ \A j \in 1..Len(visits) :
                (TopLevel(visits[j]) /\ visits[j].verdict # "directory"
                   /\ should_ignore(visits[j].path, FALSE,
                                     ContainingRules(paths[visits[j].root]))) =>
                    visits[j].verdict \in {"filtered", "gitignored"}
    /\ ignore_gitignore =>
          /\ loads = <<>>
          /\ \A j \in 1..Len(visits) : visits[j].verdict # "gitignored"

====
